---- MODULE Spec2Model ----
(***************************************************************************)
(* PDF-to-Markdown conversion scripts: convert_pdf.py ("simple"),          *)
(* pdf_to_markdown.py ("basic") and advanced_pdf_to_markdown.py            *)
(* ("advanced").                                                           *)
(*                                                                         *)
(* A Python str is a sequence of one-character strings; a character        *)
(* outside ASCII is written as its code point ("U+89C4").  Python's None   *)
(* is the value None below, which is no str.                               *)
(***************************************************************************)
EXTENDS Integers, Sequences, FiniteSets, TLC

VARIABLES
  variant,           \* which of the three scripts runs
  pc,                \* control position
  text,              \* clean_text: the argument
  cleaned,           \* clean_text(text)
  recleaned,         \* clean_text(clean_text(text))
  para,              \* detect_heading: the argument
  heading,           \* detect_heading(para)
  table_data,        \* a table as page.extract_tables() yields it
  table_markdown,    \* the Markdown rendered for table_data
  argv_len,          \* len(sys.argv) of the command line
  path_exists,       \* os.path.exists(pdf_path)
  pages,             \* what the PDF library yields for pdf.pages
  page_num,          \* the page the extraction loop is at
  markdown_content,  \* the list of strings accumulated so far
  output_file,       \* the output file: None until opened, then the characters in it
  success,           \* the conversion function's return value
  exit_code,         \* the process's exit code
  log                \* the calls made and messages printed, in order

vars == <<variant, pc, text, cleaned, recleaned, para, heading, table_data,
          table_markdown, argv_len, path_exists, pages, page_num,
          markdown_content, output_file, success, exit_code, log>>

textVars  == <<text, cleaned, recleaned>>
headVars  == <<para, heading>>
tableVars == <<table_data, table_markdown>>
convVars  == <<argv_len, path_exists, pages, page_num, markdown_content,
               output_file, success, exit_code, log>>

-----------------------------------------------------------------------------
(* Bounds of the model. *)

MaxLen == 4        \* longest generated clean_text argument
MaxCore == 3       \* longest generated prefix of a detect_heading argument
MaxRows == 2       \* most rows of a generated table
MaxCols == 2       \* most cells of a generated row
MaxPages == 2      \* most pages of a generated document

-----------------------------------------------------------------------------
(* Python values and str methods. *)

None == <<"<None>">>

\* Python truth of an Optional[str]: None and "" are false.
Truthy(x) == x /= None /\ x /= <<>>

\* str.isspace() of one character.
Whitespace == {" ", "\t", "\n", "\r", "\f"}

RECURSIVE lstrip(_)
lstrip(s) ==
  IF s /= <<>> /\ Head(s) \in Whitespace THEN lstrip(Tail(s)) ELSE s

RECURSIVE rstrip(_)
rstrip(s) ==
  IF s /= <<>> /\ s[Len(s)] \in Whitespace
  THEN rstrip(SubSeq(s, 1, Len(s) - 1)) ELSE s

strip(s) == rstrip(lstrip(s))

\* s.replace(old, new) for a one-character old.
RECURSIVE replace(_, _, _)
replace(s, old, new) ==
  IF s = <<>> THEN <<>>
  ELSE IF Head(s) = old THEN new \o replace(Tail(s), old, new)
  ELSE <<Head(s)>> \o replace(Tail(s), old, new)

\* The length of the longest prefix of s whose characters are all in set.
RECURSIVE Run(_, _)
Run(s, set) ==
  IF s /= <<>> /\ Head(s) \in set THEN 1 + Run(Tail(s), set) ELSE 0

Drop(s, n) == SubSeq(s, n + 1, Len(s))

\* re.sub(r'[ \t]+', ' ', s)  and  re.sub(r'\s+', ' ', s)
RECURSIVE sub_runs(_, _)
sub_runs(s, set) ==
  IF s = <<>> THEN <<>>
  ELSE IF Head(s) \in set
       THEN <<" ">> \o sub_runs(Drop(s, Run(s, set)), set)
       ELSE <<Head(s)>> \o sub_runs(Tail(s), set)

\* The last position of a line feed among the first n characters of s, or 0.
RECURSIVE LastLF(_, _)
LastLF(s, n) ==
  IF n = 0 THEN 0 ELSE IF s[n] = "\n" THEN n ELSE LastLF(s, n - 1)

\* re.sub(r'\n\s*\n', '\n\n', s): leftmost matches, \s* greedy.
RECURSIVE sub_blank_lines(_)
sub_blank_lines(s) ==
  IF s = <<>> THEN <<>>
  ELSE IF Head(s) = "\n" /\ LastLF(Tail(s), Run(Tail(s), Whitespace)) > 0
       THEN <<"\n", "\n">>
            \o sub_blank_lines(Drop(Tail(s), LastLF(Tail(s), Run(Tail(s), Whitespace))))
       ELSE <<Head(s)>> \o sub_blank_lines(Tail(s))

AMP == <<"&", "a", "m", "p", ";">>
LT  == <<"&", "l", "t", ";">>
GT  == <<"&", "g", "t", ";">>

\* Plausible slips: a replace call left out.
escape_no_gt(s) == replace(replace(s, "&", AMP), "<", LT)
escape_no_amp(s) == replace(replace(s, "<", LT), ">", GT)

\* The three replace calls, in the order of the source.
escape(s) == replace(replace(replace(s, "&", AMP), "<", LT), ">", GT)

-----------------------------------------------------------------------------
(* clean_text, in its two versions. *)

clean_text_advanced(t) ==
  IF ~Truthy(t) THEN <<>>
  ELSE strip(escape(sub_blank_lines(sub_runs(t, {" ", "\t"}))))

clean_text_basic(t) ==
  IF ~Truthy(t) THEN <<>>
  ELSE escape(sub_runs(strip(t), Whitespace))

clean_text(v, t) ==
  IF v = "advanced" THEN clean_text_advanced(t) ELSE clean_text_basic(t)

-----------------------------------------------------------------------------
(* detect_heading (advanced) and the heading test of the basic script. *)

Lower == <<"a", "b", "c", "d", "e", "f", "g", "h", "i", "j", "k", "l", "m",
           "n", "o", "p", "q", "r", "s", "t", "u", "v", "w", "x", "y", "z">>
Upper == <<"A", "B", "C", "D", "E", "F", "G", "H", "I", "J", "K", "L", "M",
           "N", "O", "P", "Q", "R", "S", "T", "U", "V", "W", "X", "Y", "Z">>
Digits == <<"0", "1", "2", "3", "4", "5", "6", "7", "8", "9">>

Range(f) == {f[i] : i \in DOMAIN f}

\* str.upper(), one character at a time.
upper_char(c) ==
  IF c \in Range(Lower) THEN Upper[CHOOSE i \in DOMAIN Lower : Lower[i] = c] ELSE c

upper(s) == [i \in 1..Len(s) |-> upper_char(s[i])]

\* str.isupper(): no lower-case character and at least one upper-case one.
isupper(s) ==
  /\ \A i \in 1..Len(s) : s[i] \notin Range(Lower)
  /\ \E i \in 1..Len(s) : s[i] \in Range(Upper)

\* keyword in s
Contains(s, keyword) ==
  \E i \in 1..(Len(s) - Len(keyword) + 1) :
    SubSeq(s, i, i + Len(keyword) - 1) = keyword

\* re.match(r'^\d+\.?\s+[A-Z]', s)
match_numbered(s) ==
  LET d == Run(s, Range(Digits))
      afterDigits == Drop(s, d)
      afterDot == IF afterDigits /= <<>> /\ Head(afterDigits) = "."
                  THEN Tail(afterDigits) ELSE afterDigits
      w == Run(afterDot, Whitespace)
  IN  /\ d >= 1
      /\ w >= 1
      /\ Len(afterDot) > w
      /\ afterDot[w + 1] \in Range(Upper)

heading_keywords ==
  << <<"U+89C4", "U+683C">>, <<"U+53C2", "U+6570">>, <<"U+6280", "U+672F">>,
     <<"U+5C3A", "U+5BF8">>, <<"U+8BF4", "U+660E">>, <<"U+8981", "U+6C42">>,
     <<"U+6807", "U+51C6">>, <<"U+578B", "U+53F7">>, <<"U+540D", "U+79F0">> >>

AllCapsLimit == 50
BasicHeadingLimit == 100

\* A plausible slip: the limit of the basic script's heading test.
detect_heading_limit_100(t) ==
  IF ~Truthy(t) \/ Len(strip(t)) < 2 THEN FALSE
  ELSE IF upper(strip(t)) = strip(t) /\ Len(strip(t)) < BasicHeadingLimit THEN TRUE
  ELSE IF match_numbered(strip(t)) THEN TRUE
  ELSE \E k \in DOMAIN heading_keywords : Contains(t, heading_keywords[k])

detect_heading(t) ==
  IF ~Truthy(t) \/ Len(strip(t)) < 2 THEN FALSE
  ELSE IF upper(strip(t)) = strip(t) /\ Len(strip(t)) < AllCapsLimit THEN TRUE
  ELSE IF match_numbered(strip(t)) THEN TRUE
  ELSE \E k \in DOMAIN heading_keywords : Contains(t, heading_keywords[k])

\* pdf_to_markdown.py: len(p) < 100 and p.isupper(), on the stripped paragraph.
is_heading_basic(p) == Len(p) < BasicHeadingLimit /\ isupper(p)

is_heading(v, p) == IF v = "advanced" THEN detect_heading(p) ELSE is_heading_basic(p)

-----------------------------------------------------------------------------
(* Table rendering. *)

\* sep.join(parts)
RECURSIVE join(_, _)
join(sep, parts) ==
  IF parts = <<>> THEN <<>>
  ELSE IF Len(parts) = 1 THEN parts[1]
  ELSE parts[1] \o sep \o join(sep, Tail(parts))

\* "".join(parts)
concat(parts) == join(<<>>, parts)

\* Whether sep stands at position i of s.
At(s, i, sep) ==
  i + Len(sep) - 1 <= Len(s) /\ \A j \in 1..Len(sep) : s[i + j - 1] = sep[j]

\* The first position from i on at which sep occurs in s, or 0.
RECURSIVE FindFrom(_, _, _)
FindFrom(s, sep, i) ==
  IF i + Len(sep) - 1 > Len(s) THEN 0
  ELSE IF At(s, i, sep) THEN i
  ELSE FindFrom(s, sep, i + 1)

Find(s, sep) == FindFrom(s, sep, 1)

\* s.split(sep)
RECURSIVE split(_, _)
split(s, sep) ==
  LET at == Find(s, sep)
  IN  IF at = 0 THEN <<s>>
      ELSE <<SubSeq(s, 1, at - 1)>> \o split(Drop(s, at + Len(sep) - 1), sep)

\* str(n) for n >= 0
RECURSIVE str_int(_)
str_int(n) ==
  IF n < 10 THEN <<Digits[n + 1]>> ELSE str_int(n \div 10) \o <<Digits[(n % 10) + 1]>>

\* any(cell for cell in row if cell)
any_cell(row) == \E i \in 1..Len(row) : Truthy(row[i])

\* any(any(cell for cell in row if cell) for row in table)
any_row(table) == \E r \in 1..Len(table) : any_cell(table[r])

\* str(cell) if cell else ""
cell_str(cell) == IF Truthy(cell) THEN cell ELSE <<>>

BAR_L == <<"|", " ">>
BAR_M == <<" ", "|", " ">>
BAR_R == <<" ", "|">>
DASHES == <<"-", "-", "-">>
NL == <<"\n">>
NLNL == <<"\n", "\n">>

\* "| " + " | ".join(str(cell) if cell else "" for cell in row) + " |"
row_text(row) ==
  BAR_L \o join(BAR_M, [i \in 1..Len(row) |-> cell_str(row[i])]) \o BAR_R

\* "| " + " | ".join("---" for _ in row) + " |"
separator(row) ==
  BAR_L \o join(BAR_M, [i \in 1..Len(row) |-> DASHES]) \o BAR_R

\* A plausible slip: the separator built from the unfiltered table's first row.
format_table_separator_of_first_row(table) ==
  IF table = <<>> \/ ~any_row(table) THEN <<>>
  ELSE LET filtered_table == SelectSeq(table, any_cell)
       IN  join(NL, <<row_text(filtered_table[1]), separator(table[1])>>
                    \o [k \in 1..(Len(filtered_table) - 1) |->
                          row_text(filtered_table[k + 1])])

format_table(table) ==
  IF table = <<>> \/ ~any_row(table) THEN <<>>
  ELSE LET filtered_table == SelectSeq(table, any_cell)
       IN  IF filtered_table = <<>> THEN <<>>
           ELSE join(NL, <<row_text(filtered_table[1]), separator(filtered_table[1])>>
                         \o [k \in 1..(Len(filtered_table) - 1) |->
                               row_text(filtered_table[k + 1])])

TABLE_ADVANCED == <<"#", "#", "#", " ", "U+8868", "U+683C", " ">>
TABLE_BASIC == <<"#", "#", "#", " ", "U+8868", "U+683C", "U+6570", "U+636E">> \o NLNL
TABLE_SIMPLE == <<"#", "#", "#", " ", "T", "a", "b", "l", "e", " ">>

\* The strings appended for the table of index i (from 0) of a page.
table_chunks_advanced(i, table) ==
  IF table /= <<>> /\ any_row(table)
  THEN <<TABLE_ADVANCED \o str_int(i + 1) \o NLNL>>
       \o (IF format_table(table) /= <<>> THEN <<format_table(table), NLNL>> ELSE <<>>)
  ELSE <<>>

table_chunks_basic(i, table) ==
  IF table /= <<>> /\ any_row(table)
  THEN <<TABLE_BASIC, row_text(table[1]) \o NL, separator(table[1]) \o NL>>
       \o [k \in 1..(Len(table) - 1) |-> row_text(table[k + 1]) \o NL]
       \o <<NL>>
  ELSE <<>>

table_chunks_simple(i, table) ==
  IF table /= <<>> /\ any_row(table)
  THEN LET rows == SelectSeq(table, any_cell)
       IN  <<TABLE_SIMPLE \o str_int(i + 1) \o NLNL>>
           \o [k \in 1..Len(rows) |-> row_text(rows[k]) \o NL]
           \o <<NL>>
  ELSE <<>>

table_chunks(v, i, table) ==
  IF v = "advanced" THEN table_chunks_advanced(i, table)
  ELSE IF v = "basic" THEN table_chunks_basic(i, table)
  ELSE table_chunks_simple(i, table)

-----------------------------------------------------------------------------
(* The strings a conversion appends to markdown_content. *)

RULE == <<"-", "-", "-">> \o NLNL
H3 == <<"#", "#", "#", " ">>
STEM == <<"d", "o", "c">>

\* The three strings appended once the PDF is open.
document_header(v, total_pages) ==
  IF v = "simple"
  THEN << <<"#", " ">> \o STEM \o NLNL,
          <<"*", "C", "o", "n", "v", "e", "r", "t", "e", "d", " ", "f", "r", "o", "m",
            " ", "P", "D", "F", " ", "-", " ">> \o str_int(total_pages)
            \o <<" ", "p", "a", "g", "e", "s", "*">> \o NLNL,
          RULE >>
  ELSE << <<"#", " ", "D", "M", "4", "3", "4", "0", " ", "U+51CF", "U+901F", "U+7535",
            "U+673A", "U+6280", "U+672F", "U+6587", "U+6863">> \o NLNL,
          <<"*", "U+6587", "U+6863", "U+9875", "U+6570", ":", " ">>
            \o str_int(total_pages) \o <<"*">> \o NLNL,
          RULE >>

page_heading(v, n) ==
  IF v = "simple"
  THEN <<"#", "#", " ", "P", "a", "g", "e", " ">> \o str_int(n) \o NLNL
  ELSE <<"#", "#", " ", "U+7B2C", " ">> \o str_int(n) \o <<" ", "U+9875">> \o NLNL

\* One paragraph of the cleaned text: nothing, a heading or plain text.
paragraph_chunks(v, paragraph) ==
  IF strip(paragraph) = <<>> THEN <<>>
  ELSE IF is_heading(v, strip(paragraph)) THEN <<H3 \o strip(paragraph) \o NLNL>>
  ELSE <<strip(paragraph) \o NLNL>>

RECURSIVE flatten(_)
flatten(lists) == IF lists = <<>> THEN <<>> ELSE Head(lists) \o flatten(Tail(lists))

\* The strings appended for the text of page n.
text_chunks(v, n, t) ==
  IF ~Truthy(t) THEN <<>>
  ELSE IF v = "simple" THEN <<page_heading(v, n), strip(t) \o NLNL, RULE>>
  ELSE LET paragraphs == split(clean_text(v, t), NLNL)
       IN  <<page_heading(v, n)>>
           \o flatten([k \in 1..Len(paragraphs) |-> paragraph_chunks(v, paragraphs[k])])
           \o <<RULE>>

\* The strings appended for the tables of a page.
tables_chunks(v, tables) ==
  flatten([i \in 1..Len(tables) |-> table_chunks(v, i - 1, tables[i])])

\* A plausible slip: the rule appended after the tables.
page_chunks_rule_last(v, n, page) ==
  IF ~Truthy(page.text) THEN tables_chunks(v, page.tables)
  ELSE SubSeq(text_chunks(v, n, page.text), 1, Len(text_chunks(v, n, page.text)) - 1)
       \o tables_chunks(v, page.tables) \o <<RULE>>

\* One iteration of the loop over pdf.pages.
page_chunks(v, n, page) == text_chunks(v, n, page.text) \o tables_chunks(v, page.tables)

-----------------------------------------------------------------------------
(* Values of the variables a specification does not use. *)

TextIdle  == text = None /\ cleaned = None /\ recleaned = None
HeadIdle  == para = None /\ heading = FALSE
TableIdle == table_data = <<>> /\ table_markdown = None
ConvIdle  ==
  /\ argv_len = 0 /\ path_exists = FALSE /\ pages = <<>> /\ page_num = 0
  /\ markdown_content = <<>> /\ output_file = None /\ success = "unset"
  /\ exit_code = -1 /\ log = <<>>

\* Every str over alphabet of at most n characters.
Strings(alphabet, n) == UNION {[1..k -> alphabet] : k \in 0..n}

-----------------------------------------------------------------------------
(* SpecText: clean_text applied to a text, and to its own result. *)

TextAlphabet == {"&", "<", ">", " ", "\t", "\n", "a"}

Hello_WORLD == <<"H", "e", "l", "l", "o", "\n", "\n", "W", "O", "R", "L", "D">>

ExtraTexts ==
  { <<"a", "\n", " ", "\n", "\n", "b">>,
    <<"a", " ", "\t", "&", "a", "m", "p", ";">>,
    Hello_WORLD }

Texts == {None} \cup Strings(TextAlphabet, MaxLen) \cup ExtraTexts

InitText ==
  /\ variant \in {"basic", "advanced"}
  /\ pc = "input"
  /\ text \in Texts
  /\ cleaned = None /\ recleaned = None
  /\ HeadIdle /\ TableIdle /\ ConvIdle

CleanText ==
  /\ pc = "input"
  /\ cleaned' = clean_text(variant, text)
  /\ pc' = "cleaned"
  /\ UNCHANGED <<variant, text, recleaned, headVars, tableVars, convVars>>

CleanAgain ==
  /\ pc = "cleaned"
  /\ recleaned' = clean_text(variant, cleaned)
  /\ pc' = "recleaned"
  /\ UNCHANGED <<variant, text, cleaned, headVars, tableVars, convVars>>

NextText == CleanText \/ CleanAgain

SpecText == InitText /\ [][NextText]_vars

Has(s, c) == \E i \in 1..Len(s) : s[i] = c

HasSpecial(s) == Has(s, "&") \/ Has(s, "<") \/ Has(s, ">")

\* Whether the entity e stands at position i of s.
EntityAt(s, i, e) == i + Len(e) - 1 <= Len(s) /\ SubSeq(s, i, i + Len(e) - 1) = e

WellEscaped(s) ==
  /\ ~Has(s, "<") /\ ~Has(s, ">")
  /\ \A i \in 1..Len(s) :
       s[i] = "&" => EntityAt(s, i, AMP) \/ EntityAt(s, i, LT) \/ EntityAt(s, i, GT)

\* C1, as stated: clean_text is idempotent, clean_text(clean_text(s)) =
\* clean_text(s) for every s.
C1_Idempotent == pc = "recleaned" => recleaned = cleaned

\* C1, amended: clean_text(clean_text(s)) = clean_text(s) exactly for the s
\* that hold none of '&', '<', '>'; for any other s the second pass escapes
\* the '&' of the entities the first pass wrote.
C1_IdempotentIffNoSpecial ==
  pc = "recleaned" => ((recleaned = cleaned) <=> ~HasSpecial(text))

C1_Witness ==
  /\ pc = "recleaned" /\ recleaned = cleaned
  /\ Has(text, "\n") /\ Has(text, "\t") /\ Has(text, "a")
  /\ cleaned /= text /\ Len(cleaned) >= 1

\* C2: the output of clean_text holds no '<' and no '>', every '&' in it
\* starts one of '&amp;', '&lt;', '&gt;', and an absent or empty input gives
\* the empty string.
C2_Escaped ==
  pc \in {"cleaned", "recleaned"} =>
    /\ WellEscaped(cleaned)
    /\ (~Truthy(text) => cleaned = <<>>)

C2_Witness ==
  /\ pc = "cleaned"
  /\ Has(text, "&") /\ Has(text, "<") /\ Has(text, ">")
  /\ Len(cleaned) = 13

-----------------------------------------------------------------------------
(* SpecHeading: detect_heading applied to a paragraph. *)

HeadAlphabet == {"A", "a", "1", ".", " ", "U+89C4", "U+683C"}

\* n copies of the character c.
Repeat(c, n) == [i \in 1..n |-> c]

\* Lengths on both sides of the limit of 50, for a prefix of up to MaxCore.
PadLengths == {0, 47, 48}

LongLowercase == Repeat("a", 30) \o <<" ">> \o Repeat("b", 40)

Paragraphs ==
  {None, LongLowercase}
  \cup {core \o Repeat(c, n) : core \in Strings(HeadAlphabet, MaxCore),
                                   c \in {"A", "a"}, n \in PadLengths}

InitHeading ==
  /\ variant = "advanced"
  /\ pc = "input"
  /\ para \in Paragraphs
  /\ heading = FALSE
  /\ TextIdle /\ TableIdle /\ ConvIdle

DetectHeading ==
  /\ pc = "input"
  /\ heading' = detect_heading(para)
  /\ pc' = "detected"
  /\ UNCHANGED <<variant, para, textVars, tableVars, convVars>>

NextHeading == DetectHeading

SpecHeading == InitHeading /\ [][NextHeading]_vars

\* The three conditions of the claim, on a str.
AllCapsUnder50(t) == upper(strip(t)) = strip(t) /\ Len(strip(t)) < 50

NumberedAt(u, d, w) ==
  LET dot == IF d < Len(u) /\ u[d + 1] = "." THEN 1 ELSE 0
  IN  /\ d + dot + w + 1 <= Len(u)
      /\ \A i \in 1..d : u[i] \in Range(Digits)
      /\ \A i \in (d + dot + 1)..(d + dot + w) : u[i] \in Whitespace
      /\ u[d + dot + w + 1] \in Range(Upper)

Numbered(t) ==
  LET u == strip(t)
  IN  \E d \in 1..Len(u) : u[d] \in Range(Digits) /\ \E w \in 1..Len(u) : NumberedAt(u, d, w)

HasKeyword(t) == \E k \in DOMAIN heading_keywords : Contains(t, heading_keywords[k])

AnyCondition(t) == t /= None /\ (AllCapsUnder50(t) \/ Numbered(t) \/ HasKeyword(t))

\* C9, as stated: detect_heading(text) is true if and only if the trimmed
\* text is its own upper-casing and under 50 characters, or starts with
\* digits, an optional dot, whitespace and a capital, or holds a keyword.
C9_IffConditions == pc = "detected" => (heading <=> AnyCondition(para))

\* C9, amended: detect_heading(text) is true if and only if the trimmed text
\* has at least 2 characters and one of the three conditions holds; a text
\* that trims to fewer than 2 characters is never a heading.  The keyword
\* U+89C4 U+683C alone is a heading, a long lower-case sentence is not.
C9_IffConditionsAndLength ==
  pc = "detected" =>
    /\ heading <=> (AnyCondition(para) /\ Len(strip(para)) >= 2)
    /\ (para = <<"U+89C4", "U+683C">> => heading)
    /\ (para = LongLowercase => ~heading)

C9_Witness ==
  /\ pc = "detected" /\ ~heading
  /\ Len(strip(para)) >= 50 /\ upper(strip(para)) = strip(para)

-----------------------------------------------------------------------------
(* SpecTable: one table rendered by the scripts that write a header row *)
(* and a separator.                                                     *)

CellValues == {None, <<>>, <<"A">>}

Rows == UNION {[1..n -> CellValues] : n \in 1..MaxCols}

ExampleTable == << <<<<"A">>, <<"B">>>>, <<<<>>, <<>>>>, <<<<"1">>, <<"2">>>> >>

Tables == UNION {[1..n -> Rows] : n \in 0..MaxRows} \cup {ExampleTable}

InitTable ==
  /\ variant \in {"basic", "advanced"}
  /\ pc = "input"
  /\ table_data \in Tables
  /\ table_markdown = None
  /\ TextIdle /\ HeadIdle /\ ConvIdle

\* advanced_pdf_to_markdown.py: the table heading, format_table, a blank line.
FormatTable ==
  /\ pc = "input" /\ variant = "advanced"
  /\ table_markdown' = concat(table_chunks_advanced(0, table_data))
  /\ pc' = "rendered"
  /\ UNCHANGED <<variant, table_data, textVars, headVars, convVars>>

\* pdf_to_markdown.py: the table rendered inline by extract_text_with_formatting.
RenderTableInline ==
  /\ pc = "input" /\ variant = "basic"
  /\ table_markdown' = concat(table_chunks_basic(0, table_data))
  /\ pc' = "rendered"
  /\ UNCHANGED <<variant, table_data, textVars, headVars, convVars>>

NextTable == FormatTable \/ RenderTableInline

SpecTable == InitTable /\ [][NextTable]_vars

\* The lines of a rendered text that are table rows: those starting with '|'.
TableLines(md) == SelectSeq(split(md, NL), LAMBDA l : l /= <<>> /\ l[1] = "|")

\* The cells of a rendered table line.
ParseCells(line) == split(SubSeq(line, 3, Len(line) - 2), BAR_M)

CellsOf(row) == [i \in 1..Len(row) |-> cell_str(row[i])]

NonEmptyRows(table) == SelectSeq(table, any_cell)

\* C3: the rendered rows are exactly the input rows with a non-empty cell, in
\* their order; the row before the separator is the first of them; a table
\* with no non-empty cell renders nothing.
C3_RowsAreNonEmptyRows ==
  pc = "rendered" =>
    LET lines == TableLines(table_markdown)
        kept == NonEmptyRows(table_data)
    IN  IF kept = <<>> THEN table_markdown = <<>>
        ELSE /\ Len(lines) = Len(kept) + 1
             /\ ParseCells(lines[1]) = CellsOf(kept[1])
             /\ \A i \in 1..Len(ParseCells(lines[2])) : ParseCells(lines[2])[i] = DASHES
             /\ \A k \in 2..Len(kept) : ParseCells(lines[k + 1]) = CellsOf(kept[k])

\* The same, of format_table alone.
C3_HoldsOfFormatTable == variant = "advanced" => C3_RowsAreNonEmptyRows

\* The rows a script renders: format_table drops the rows with no non-empty
\* cell, the inline rendering keeps every row.
RenderedRows(v, table) == IF v = "advanced" THEN NonEmptyRows(table) ELSE table

\* C4: in a rendered table the header row has as many cells as the separator
\* has '---' cells, and each later row has its own number of cells, equal to
\* the header's or not.
C4_HeaderMatchesSeparator ==
  (pc = "rendered" /\ any_row(table_data)) =>
    LET lines == TableLines(table_markdown)
        rows == RenderedRows(variant, table_data)
    IN  /\ Len(lines) = Len(rows) + 1
        /\ Len(ParseCells(lines[1])) = Len(ParseCells(lines[2]))
        /\ \A i \in 1..Len(ParseCells(lines[2])) : ParseCells(lines[2])[i] = DASHES
        /\ \A k \in 2..Len(rows) : Len(ParseCells(lines[k + 1])) = Len(rows[k])

C4_Witness ==
  /\ pc = "rendered" /\ any_row(table_data)
  /\ Len(table_data) = 2 /\ any_cell(table_data[1])
  /\ Len(table_data[2]) < Len(table_data[1])
  /\ Len(TableLines(table_markdown)) = 3

-----------------------------------------------------------------------------
(* Spec: one run of a script, from its __main__ block to the exit. *)

PageTexts == {None, <<" ">>, Hello_WORLD}

EmptyTable == << <<None, <<>>>> >>
ShortRowTable == << <<<<"A">>, <<"B">>>>, <<<<"1">>>> >>

PageTables == {<<>>, <<ExampleTable>>, <<EmptyTable, ShortRowTable>>}

Pages == [text : PageTexts, tables : PageTables]

Documents == UNION {[1..n -> Pages] : n \in 0..MaxPages}

Init ==
  /\ variant \in {"simple", "basic", "advanced"}
  /\ pc = "main"
  /\ argv_len \in (IF variant = "simple" THEN {1, 2, 3} ELSE {1})
  /\ path_exists \in BOOLEAN
  /\ pages \in (IF path_exists THEN Documents ELSE {<<>>})
  /\ page_num = 0
  /\ markdown_content = <<>>
  /\ output_file = None
  /\ success = "unset"
  /\ exit_code = -1
  /\ log = <<>>
  /\ TextIdle /\ HeadIdle /\ TableIdle

idleVars == <<textVars, headVars, tableVars>>

\* convert_pdf.py with no argument: the usage message and sys.exit(1).
MainUsage ==
  /\ pc = "main" /\ variant = "simple" /\ argv_len < 2
  /\ log' = Append(log, "print usage")
  /\ exit_code' = 1
  /\ pc' = "exited"
  /\ UNCHANGED <<variant, argv_len, path_exists, pages, page_num, markdown_content,
                 output_file, success, idleVars>>

\* The call of the conversion function.
MainCall ==
  /\ pc = "main" /\ (variant = "simple" => argv_len >= 2)
  /\ pc' = "check_exists"
  /\ UNCHANGED <<variant, convVars, idleVars>>

\* A plausible slip: the missing file reported, the return left out.
CheckExistsNoReturn ==
  /\ pc = "check_exists"
  /\ log' = IF path_exists THEN Append(log, "exists")
            ELSE log \o <<"exists", "print not found">>
  /\ pc' = "open_pdf"
  /\ UNCHANGED <<variant, argv_len, path_exists, pages, page_num, markdown_content,
                 output_file, success, exit_code, idleVars>>

\* if not os.path.exists(pdf_path): print, return False
CheckExists ==
  /\ pc = "check_exists"
  /\ IF path_exists
     THEN /\ log' = Append(log, "exists")
          /\ pc' = "open_pdf"
          /\ UNCHANGED success
     ELSE /\ log' = log \o <<"exists", "print not found">>
          /\ success' = "False"
          /\ pc' = "returned"
  /\ UNCHANGED <<variant, argv_len, path_exists, pages, page_num, markdown_content,
                 output_file, exit_code, idleVars>>

\* pdfplumber.open(pdf_path) succeeds: the document header is appended.
OpenPdf ==
  /\ pc = "open_pdf" /\ path_exists
  /\ log' = Append(log, "open pdf")
  /\ markdown_content' = document_header(variant, Len(pages))
  /\ page_num' = 1
  /\ pc' = "extract"
  /\ UNCHANGED <<variant, argv_len, path_exists, pages, output_file, success,
                 exit_code, idleVars>>

\* pdfplumber.open(pdf_path) raises: the handler prints and the function fails.
OpenPdfFails ==
  /\ pc = "open_pdf"
  /\ log' = log \o <<"open pdf", "print error">>
  /\ success' = "False"
  /\ pc' = "returned"
  /\ UNCHANGED <<variant, argv_len, path_exists, pages, page_num, markdown_content,
                 output_file, exit_code, idleVars>>

\* One page: its text, then its tables.
ExtractPage ==
  /\ pc = "extract" /\ page_num <= Len(pages)
  /\ markdown_content' =
       markdown_content \o page_chunks(variant, page_num, pages[page_num])
  /\ page_num' = page_num + 1
  /\ UNCHANGED <<variant, pc, argv_len, path_exists, pages, output_file, success,
                 exit_code, log, idleVars>>

\* A plausible slip: what was accumulated is written when a page fails.
ExtractPageFailsWritingPartial ==
  /\ pc = "extract" /\ page_num <= Len(pages)
  /\ log' = log \o <<"open output", "write", "print error">>
  /\ output_file' = concat(markdown_content)
  /\ success' = "False"
  /\ pc' = "returned"
  /\ UNCHANGED <<variant, argv_len, path_exists, pages, page_num, markdown_content,
                 exit_code, idleVars>>

\* page.extract_text() or page.extract_tables() raises on the page: the
\* handler prints, the function fails and the list is dropped.
ExtractPageFails ==
  /\ pc = "extract" /\ page_num <= Len(pages)
  /\ log' = Append(log, "print error")
  /\ markdown_content' = <<>>
  /\ success' = "False"
  /\ pc' = "returned"
  /\ UNCHANGED <<variant, argv_len, path_exists, pages, page_num, output_file,
                 exit_code, idleVars>>

\* The loop is over; the content is joined and the output file is next.
ExtractDone ==
  /\ pc = "extract" /\ page_num > Len(pages)
  /\ pc' = "open_output"
  /\ UNCHANGED <<variant, convVars, idleVars>>

\* open(output_path, 'w', encoding='utf-8') creates or truncates the file.
OpenOutput ==
  /\ pc = "open_output"
  /\ log' = Append(log, "open output")
  /\ output_file' = <<>>
  /\ pc' = "write"
  /\ UNCHANGED <<variant, argv_len, path_exists, pages, page_num, markdown_content,
                 success, exit_code, idleVars>>

\* open raises: the file is as it was.
OpenOutputFails ==
  /\ pc = "open_output"
  /\ log' = log \o <<"open output", "print error">>
  /\ success' = "False"
  /\ pc' = "returned"
  /\ UNCHANGED <<variant, argv_len, path_exists, pages, page_num, markdown_content,
                 output_file, exit_code, idleVars>>

\* f.write("".join(markdown_content)), the file closed, the success message.
WriteOutput ==
  /\ pc = "write"
  /\ log' = log \o <<"write", "print converted">>
  /\ output_file' = concat(markdown_content)
  /\ success' = "True"
  /\ pc' = "returned"
  /\ UNCHANGED <<variant, argv_len, path_exists, pages, page_num, markdown_content,
                 exit_code, idleVars>>

\* f.write or the close raises after the first k strings' characters reached
\* the file.
WriteOutputFails ==
  /\ pc = "write"
  /\ \E k \in 0..(Len(markdown_content) - 1) :
       output_file' = concat(SubSeq(markdown_content, 1, k))
  /\ log' = log \o <<"write", "print error">>
  /\ success' = "False"
  /\ pc' = "returned"
  /\ UNCHANGED <<variant, argv_len, path_exists, pages, page_num, markdown_content,
                 exit_code, idleVars>>

\* A plausible slip: the failure message without sys.exit(1), as in the other
\* two scripts.
MainFinishNoExit ==
  /\ pc = "returned"
  /\ log' = Append(log, IF success = "True" THEN "print completed" ELSE "print failed")
  /\ exit_code' = 0
  /\ pc' = "exited"
  /\ UNCHANGED <<variant, argv_len, path_exists, pages, page_num, markdown_content,
                 output_file, success, idleVars>>

\* The end of the __main__ block: only convert_pdf.py calls sys.exit(1).
MainFinish ==
  /\ pc = "returned"
  /\ log' = Append(log, IF success = "True" THEN "print completed" ELSE "print failed")
  /\ exit_code' = IF variant = "simple" /\ success /= "True" THEN 1 ELSE 0
  /\ pc' = "exited"
  /\ UNCHANGED <<variant, argv_len, path_exists, pages, page_num, markdown_content,
                 output_file, success, idleVars>>

Next ==
  \/ MainUsage \/ MainCall \/ CheckExists
  \/ OpenPdf \/ OpenPdfFails
  \/ ExtractPage \/ ExtractPageFails \/ ExtractDone
  \/ OpenOutput \/ OpenOutputFails
  \/ WriteOutput \/ WriteOutputFails
  \/ MainFinish

Spec == Init /\ [][Next]_vars

-----------------------------------------------------------------------------
(* Claims of Spec. *)

InLog(e) == \E i \in 1..Len(log) : log[i] = e

\* Whether every e2 in the log has an e1 before it.
Precedes(e1, e2) ==
  \A j \in 1..Len(log) : log[j] = e2 => \E i \in 1..(j - 1) : log[i] = e1

Messages == {"print usage", "print not found", "print error", "print converted",
             "print completed", "print failed"}

Printed == Cardinality({i \in 1..Len(log) : log[i] \in Messages})

\* C5: with the input path missing, each of the three conversion functions
\* returns False without opening the PDF and without opening the output
\* file; the existence check comes before both opens in every run.
C5_MissingInputFailsFirst ==
  /\ Precedes("exists", "open pdf") /\ Precedes("exists", "open output")
  /\ (~path_exists =>
        /\ ~InLog("open pdf") /\ ~InLog("open output")
        /\ output_file = None
        /\ success /= "True"
        /\ (InLog("exists") => success = "False" /\ pc \in {"returned", "exited"}))

C5_Witness ==
  pc = "returned" /\ ~path_exists /\ success = "False" /\ InLog("exists")

\* Whether s is t or the start of it.
IsPrefix(s, t) == Len(s) <= Len(t) /\ SubSeq(t, 1, Len(s)) = s

Failed == pc \in {"returned", "exited"} /\ success = "False"

\* C6, as stated: after a failure at any point of extraction or of writing,
\* the output file is untouched or holds the complete document.
C6_NoPartialOutput ==
  Failed => (output_file = None \/ output_file = concat(markdown_content))

\* C6, amended: a failure during extraction (opening the PDF, or any page)
\* and a failure to open the output leave the output file untouched: it is
\* opened only once every page is extracted.  A success leaves the complete
\* document.  A failure of the write itself, after the file was opened,
\* returns failure and leaves the file empty or with the start of the
\* document.
C6_OutputOpenedAfterExtraction ==
  /\ (output_file /= None =>
        /\ InLog("open pdf") /\ page_num = Len(pages) + 1
        /\ IsPrefix(output_file, concat(markdown_content)))
  /\ (success = "True" =>
        /\ output_file = concat(markdown_content)
        /\ page_num = Len(pages) + 1)
  /\ ((Failed /\ ~InLog("write")) => output_file = None)
  /\ ((Failed /\ InLog("write")) =>
        output_file /= None /\ output_file /= concat(markdown_content))

C6_Witness ==
  /\ Failed /\ ~InLog("write") /\ output_file = None
  /\ Len(pages) = 2 /\ page_num = 2

StartsWith(s, prefix) == Len(prefix) <= Len(s) /\ SubSeq(s, 1, Len(prefix)) = prefix

\* What a string of markdown_content is.
Kind(chunk) ==
  IF chunk = RULE THEN "rule"
  ELSE IF chunk \in {NL, NLNL} THEN "gap"
  ELSE IF StartsWith(chunk, <<"|">>) THEN "rows"
  ELSE IF StartsWith(chunk, <<"#", "#", " ">>) THEN "page heading"
  ELSE IF StartsWith(chunk, TABLE_SIMPLE) \/ StartsWith(chunk, TABLE_BASIC)
          \/ StartsWith(chunk, TABLE_ADVANCED) THEN "table heading"
  ELSE "paragraph"

Kinds(chunks) == [i \in 1..Len(chunks) |-> Kind(chunks[i])]

Count(kinds, k) == Cardinality({i \in 1..Len(kinds) : kinds[i] = k})

RenderedTables(page) ==
  Cardinality({i \in 1..Len(page.tables) : any_row(page.tables[i])})

\* The last page heading or rule before position j, or "none".
Enclosing(kinds, j) ==
  LET marks == {i \in 1..(j - 1) : kinds[i] \in {"page heading", "rule"}}
  IN  IF marks = {} THEN "none"
      ELSE kinds[CHOOSE i \in marks : \A m \in marks : m <= i]

\* C7, as stated: every page, with or without text, emits one page heading,
\* its paragraphs, its tables under their headings and then one rule, so
\* that every table heading lies between its page's heading and that page's
\* closing rule.
C7_TablesInsidePage ==
  pc = "open_output" =>
    LET kinds == Kinds(markdown_content)
    IN  /\ Count(kinds, "page heading") = Len(pages)
        /\ Count(kinds, "rule") = Len(pages) + 1
        /\ \A j \in 1..Len(kinds) :
             kinds[j] = "table heading" => Enclosing(kinds, j) = "page heading"

\* The strings the step appended.
Appended == SubSeq(markdown_content', Len(markdown_content) + 1, Len(markdown_content'))

\* The shape of what one page appends.  The text between the heading and
\* the rule is paragraphs; convert_pdf.py appends the stripped text as one
\* string, which is a bare blank line when the text is only whitespace.
PageShape(page, kinds) ==
  /\ Count(kinds, "table heading") = RenderedTables(page)
  /\ IF Truthy(page.text)
     THEN /\ kinds[1] = "page heading"
          /\ Count(kinds, "page heading") = 1
          /\ Count(kinds, "rule") = 1
          /\ \E r \in 2..Len(kinds) :
               /\ kinds[r] = "rule"
               /\ \A i \in 2..(r - 1) : kinds[i] \in {"paragraph", "gap"}
               /\ \A i \in (r + 1)..Len(kinds) :
                    kinds[i] \in {"table heading", "rows", "gap"}
               /\ (RenderedTables(page) > 0 => kinds[r + 1] = "table heading")
     ELSE /\ \A i \in 1..Len(kinds) : kinds[i] \in {"table heading", "rows", "gap"}
          /\ (kinds /= <<>> => kinds[1] = "table heading")

\* C7, amended: a page whose extracted text is non-empty emits, in this
\* order, one page heading, its paragraphs, one rule, and after the rule
\* each non-empty table under its table heading; a page whose text is absent
\* or empty emits no heading and no rule, only its non-empty tables under
\* their headings.
C7_RuleBeforeTables ==
  [][(pc = "extract" /\ page_num' = page_num + 1)
       => PageShape(pages[page_num], Kinds(Appended))]_vars

C7_Witness ==
  /\ pc = "extract" /\ page_num = 3
  /\ Truthy(pages[1].text) /\ pages[1].tables /= <<>>
  /\ ~Truthy(pages[2].text) /\ pages[2].tables /= <<>>
  /\ Count(Kinds(markdown_content), "table heading") >= 2

\* C8: convert_pdf.py exits with 0 exactly when the conversion succeeded and
\* the output is fully written, and with 1 when the input is missing, when
\* extraction or writing fails, or when no argument is given; it prints a
\* message in every case.
C8_ExitCode ==
  (variant = "simple" /\ pc = "exited") =>
    /\ exit_code \in {0, 1}
    /\ exit_code = 0 <=>
         (success = "True" /\ output_file = concat(markdown_content)
            /\ page_num = Len(pages) + 1)
    /\ (argv_len < 2 \/ ~path_exists \/ InLog("print error")) => exit_code = 1
    /\ Printed >= 1

C8_Witness ==
  /\ variant = "simple" /\ pc = "exited" /\ exit_code = 0
  /\ Len(pages) >= 1 /\ Len(output_file) > 0

\* Whether a line holds only whitespace.
IsBlank(line) == \A i \in 1..Len(line) : line[i] \in Whitespace

\* The paragraphs of a text: its runs of non-blank lines, in order.
RECURSIVE Group(_, _)
Group(lines, current) ==
  IF lines = <<>> THEN (IF current = <<>> THEN <<>> ELSE <<current>>)
  ELSE IF IsBlank(Head(lines))
       THEN (IF current = <<>> THEN <<>> ELSE <<current>>) \o Group(Tail(lines), <<>>)
       ELSE Group(Tail(lines),
                  IF current = <<>> THEN Head(lines) ELSE current \o NL \o Head(lines))

BlankLineParagraphs(t) == Group(split(t, NL), <<>>)

ExpectedParagraph(v, p) ==
  IF is_heading(v, strip(p)) THEN H3 \o strip(p) \o NLNL ELSE strip(p) \o NLNL

ExpectedPage(v, n, t) ==
  <<page_heading(v, n)>>
  \o [k \in 1..Len(BlankLineParagraphs(t)) |->
        ExpectedParagraph(v, BlankLineParagraphs(t)[k])]
  \o <<RULE>>

ExpectedDocument(v, doc) ==
  document_header(v, Len(doc))
  \o flatten([n \in 1..Len(doc) |-> ExpectedPage(v, n, doc[n].text)])

TextOnly(doc) ==
  \A n \in 1..Len(doc) : Truthy(doc[n].text) /\ doc[n].tables = <<>>

\* C10: for a document whose pages all have text and no tables, the two
\* scripts that format paragraphs render the title, the page count, a rule,
\* and then per page, in order, the page heading, one line per
\* blank-line-separated paragraph ('### p' for a heading, else p) and a rule.
C10_ParagraphPerBlankLine ==
  (pc = "open_output" /\ variant \in {"basic", "advanced"} /\ TextOnly(pages)) =>
    markdown_content = ExpectedDocument(variant, pages)

\* The same, of advanced_pdf_to_markdown.py alone.
C10_HoldsOfAdvanced == variant = "advanced" => C10_ParagraphPerBlankLine

====
